---- MODULE Spec2Model ----
(***************************************************************************)
(* Model of the test tree (Topic / Test / Spec) and of the Suite that      *)
(* addresses and runs it.                                                  *)
(*                                                                         *)
(* Objects live in three heaps; an object's identity is its position in    *)
(* its heap (1-based), and NULL stands for JavaScript's null / undefined.  *)
(* Array indices keep the source's 0-based convention: At and indexOf      *)
(* convert at the boundary.                                                *)
(*                                                                         *)
(* Topic and Suite are translated from their source.  Spec, Test and util  *)
(* are not part of the available source: Spec's root Topic, its address    *)
(* lookup, its totalTestCount and its before, the outcome of Test.run, and *)
(* util's timeLimit and cloneableResult follow their written description   *)
(* and their tests.                                                        *)
(***************************************************************************)
EXTENDS Integers, Sequences, FiniteSets, TLC

VARIABLES
  topicHeap,     \* every Topic object: [parentTopic, tests, topics, cleanups]
  testHeap,      \* every Test object: [topic]
  specHeap,      \* every Spec object: [rootTopic]
  entered,       \* Topics whose describe callback is running, outermost first
  specs,         \* Suite.specs: sequence of Spec identities
  address,       \* Suite.address: <<>> for null, <<a>> for a parsed SuiteAddress
  isMuted,       \* Suite.isMuted
  pc,            \* position of the program: "define", "idle", then Suite.run
  runI,          \* loop variable i of Suite.run
  frames,        \* call stack of topicRun: [topic, specIndex, loop, i]
  topicAddress,  \* the one topicAddress array shared by the topicRun recursion
  pending,       \* testRun invocations suspended at `await test.run(this)`
  executed,      \* Tests in the order their run began
  posted,        \* messages handed to window.top.postMessage, in order
  consoleLog,    \* number of console.log calls made
  cuStart,       \* the call under way: <<[topic, context, passed]>>, or <<>>
  cuTopic,       \* cleanupContext: `this` of the innermost invocation
  cuI,           \* cleanupContext: loop variable i
  cuContext,     \* cleanupContext: its context argument
  cuCalls,       \* cleanup invocations made: <<[fn, context]>> in order
  cuOutcome,     \* "none", "running", "returned" or "threw"
  cuLive,        \* cleanups that returned a promise not yet settled
  fxCalls,       \* fixture invocations made: <<[fn, context]>> in order
  ctxReads,      \* reads of Topic.context made: <<[topic, context]>> in order
  search,        \* the query parameters the last constructor call saw
  now,           \* the clock of the event loop, in ms
  limits,        \* every timeLimit made: [due, state, cancelledAt]
  resultHeap,    \* every test result object: [passed, error]
  cloneCalls     \* calls of cloneableResult made: <<[arg, ret]>> in order

vars == <<topicHeap, testHeap, specHeap, entered, specs, address, isMuted, pc, runI,
          frames, topicAddress, pending, executed, posted, consoleLog,
          cuStart, cuTopic, cuI, cuContext, cuCalls, cuOutcome, cuLive,
          fxCalls, ctxReads, search, now, limits, resultHeap, cloneCalls>>

treeVars == <<topicHeap, testHeap, specHeap>>
suiteVars == <<specs, address, isMuted>>
runVars == <<runI, frames, topicAddress, pending, executed, posted, consoleLog>>
cleanupVars == <<cuStart, cuTopic, cuI, cuContext, cuCalls, cuOutcome>>
fixtureVars == <<fxCalls, ctxReads>>
timerVars == <<now, limits>>
cloneVars == <<resultHeap, cloneCalls>>
otherVars == <<cuLive, fixtureVars, search, timerVars, cloneVars>>

\* Bounds of the model: the Specs created, the Topics and Tests defined,
\* the Specs handed to a Suite, the Tests that fail in one run, the
\* cleanups registered, the context values.  The addressing claims are
\* checked on deeper trees, of up to MaxTreeTopics Topics.  Then the
\* fixtures registered and the reads of a context, the time limits made,
\* their durations and the time the clock runs to, the results made, the
\* messages of their failures and the calls of cloneableResult.
MaxSpecs == 2
MaxTopics == 2
MaxTreeTopics == 4
MaxTests == 2
MaxSuiteSpecs == 2
MaxFailures == 1
MaxCleanups == 3
MaxContexts == 2
MaxFixtures == 3
MaxReads == 2
MaxLimits == 2
MaxDuration == 1
MaxTime == 2
MaxResults == 2
MaxMessages == 1
MaxClones == 2

NULL == 0

-----------------------------------------------------------------------------
(* JavaScript arrays *)

\* array[index]: undefined outside 0 .. length-1
At(array, index) ==
  IF index \in 0 .. (Len(array) - 1) THEN array[index + 1] ELSE NULL

\* array.indexOf(x): first 0-based position, -1 when absent
indexOf(array, x) ==
  IF \E k \in 1 .. Len(array) : array[k] = x
  THEN (CHOOSE k \in 1 .. Len(array) :
          array[k] = x /\ \A j \in 1 .. (k - 1) : array[j] # x) - 1
  ELSE -1

\* array.unshift(x), as a mutant would do it with push
unshift_asPush(array, x) == Append(array, x)

\* array.unshift(x)
unshift(array, x) == <<x>> \o array

\* array.pop()
pop(array) == SubSeq(array, 1, Len(array) - 1)

-----------------------------------------------------------------------------
(* Topic *)

\* new Topic(description, parentTopic)
Topic(parentTopic) ==
  [parentTopic |-> parentTopic, tests |-> <<>>, topics |-> <<>>,
   fixtures |-> <<>>, cleanups |-> <<>>]

\* new Test(description, implementation, config, topic)
Test(topic) == [topic |-> topic]

\* Topic.addSubtopic, were the new Topic not pushed onto this.topics
addSubtopic_unlinked(topic) ==
  topicHeap' = Append(topicHeap, Topic(topic))

\* Topic.addSubtopic
addSubtopic(topic) ==
  LET subtopic == Len(topicHeap) + 1 IN
    topicHeap' = Append(
      [topicHeap EXCEPT ![topic].topics = Append(@, subtopic)],
      Topic(topic))

\* Topic.addTest
addTest(topic) ==
  LET test == Len(testHeap) + 1 IN
    /\ testHeap' = Append(testHeap, Test(topic))
    /\ topicHeap' = [topicHeap EXCEPT ![topic].tests = Append(@, test)]

\* new Topic(description): a root Topic, the first Topic there is
newTopic ==
  /\ topicHeap = <<>>
  /\ topicHeap' = <<Topic(NULL)>>
  /\ UNCHANGED <<otherVars, testHeap, specHeap, entered, suiteVars, pc, runVars,
                 cleanupVars>>

\* A call of addSubtopic on any Topic
Topic_addSubtopic(topic) ==
  /\ topic \in 1 .. Len(topicHeap)
  /\ Len(topicHeap) < MaxTreeTopics
  /\ addSubtopic(topic)
  /\ UNCHANGED <<otherVars, testHeap, specHeap, entered, suiteVars, pc, runVars,
                 cleanupVars>>

\* A call of addTest on any Topic
Topic_addTest(topic) ==
  /\ topic \in 1 .. Len(topicHeap)
  /\ Len(testHeap) < MaxTests
  /\ addTest(topic)
  /\ UNCHANGED <<otherVars, specHeap, entered, suiteVars, pc, runVars,
                 cleanupVars>>

-----------------------------------------------------------------------------
(* Spec: the definition pass.  describe enters a Topic for the time of its *)
(* callback, it adds a Test to the Topic entered; the callbacks entered    *)
(* and not yet left are the stack entered.  One definition pass is active  *)
(* at a time.                                                              *)

\* Spec.currentTopic
currentTopic == entered[Len(entered)]

\* new Spec(): the root Topic does not exist yet
newSpec ==
  /\ pc = "define"
  /\ entered = <<>>
  /\ Len(specHeap) < MaxSpecs
  /\ specHeap' = Append(specHeap, [rootTopic |-> NULL])
  /\ UNCHANGED <<otherVars, topicHeap, testHeap, entered, suiteVars, pc, runVars,
                 cleanupVars>>

\* Spec.describe outside any callback: the first one creates the root Topic
\* and enters it
describeRoot(spec, maxTopics) ==
  /\ pc = "define"
  /\ entered = <<>>
  /\ specHeap[spec].rootTopic = NULL
  /\ Len(topicHeap) < maxTopics
  /\ topicHeap' = Append(topicHeap, Topic(NULL))
  /\ specHeap' = [specHeap EXCEPT ![spec].rootTopic = Len(topicHeap) + 1]
  /\ entered' = <<Len(topicHeap) + 1>>
  /\ UNCHANGED <<otherVars, testHeap, suiteVars, pc, runVars, cleanupVars>>

\* Spec.describe inside a callback: a subtopic of the Topic entered
describe(maxTopics) ==
  /\ pc = "define"
  /\ entered # <<>>
  /\ Len(topicHeap) < maxTopics
  /\ addSubtopic(currentTopic)
  /\ entered' = Append(entered, Len(topicHeap) + 1)
  /\ UNCHANGED <<otherVars, testHeap, specHeap, suiteVars, pc, runVars, cleanupVars>>

\* Spec.describe: its callback returns
describeEnd ==
  /\ pc = "define"
  /\ entered # <<>>
  /\ entered' = pop(entered)
  /\ UNCHANGED <<otherVars, treeVars, suiteVars, pc, runVars, cleanupVars>>

\* Spec.it
it ==
  /\ pc = "define"
  /\ entered # <<>>
  /\ Len(testHeap) < MaxTests
  /\ addTest(currentTopic)
  /\ UNCHANGED <<otherVars, specHeap, entered, suiteVars, pc, runVars, cleanupVars>>

\* Spec.getTestByAddress: the walk from the root through address.topic
RECURSIVE walkTopics(_, _)
walkTopics(topic, path) ==
  IF topic = NULL THEN NULL
  ELSE IF path = <<>> THEN topic
  ELSE walkTopics(At(topicHeap[topic].topics, Head(path)), Tail(path))

\* Spec.getTestByAddress
Spec_getTestByAddress(spec, a) ==
  LET topic == walkTopics(specHeap[spec].rootTopic, a.topic) IN
    IF topic = NULL THEN NULL ELSE At(topicHeap[topic].tests, a.test)

\* The Tests of a Topic and of the Topics below it
RECURSIVE countTests(_)
RECURSIVE countEach(_)
countTests(topic) ==
  Len(topicHeap[topic].tests) + countEach(topicHeap[topic].topics)
countEach(children) ==
  IF children = <<>> THEN 0
  ELSE countTests(Head(children)) + countEach(Tail(children))

\* Spec.totalTestCount, were it to count the Tests of the root Topic only
totalTestCount_rootOnly(spec) ==
  IF specHeap[spec].rootTopic = NULL THEN 0
  ELSE Len(topicHeap[specHeap[spec].rootTopic].tests)

\* Spec.totalTestCount
totalTestCount(spec) ==
  IF specHeap[spec].rootTopic = NULL THEN 0
  ELSE countTests(specHeap[spec].rootTopic)

-----------------------------------------------------------------------------
(* Topic: cleanups *)

\* The cleanup functions registered so far, on any Topic
RECURSIVE cleanupCount(_)
cleanupCount(n) ==
  IF n = 0 THEN 0 ELSE Len(topicHeap[n].cleanups) + cleanupCount(n - 1)

\* A cleanup function is registered on the Topic entered: a push onto
\* its cleanups
addCleanup ==
  /\ pc = "define"
  /\ entered # <<>>
  /\ cleanupCount(Len(topicHeap)) < MaxCleanups
  /\ topicHeap' = [topicHeap EXCEPT ![currentTopic].cleanups =
       Append(@, cleanupCount(Len(topicHeap)) + 1)]
  /\ UNCHANGED <<otherVars, testHeap, specHeap, entered, suiteVars, pc, runVars,
                 cleanupVars>>

\* this.cleanups[i], as a mutant whose loop runs forward
cleanupAt_forward(topic, i) ==
  At(topicHeap[topic].cleanups, Len(topicHeap[topic].cleanups) - 1 - i)

\* this.cleanups[i]
cleanupAt(topic, i) == At(topicHeap[topic].cleanups, i)

\* this.parentTopic in cleanupContext, as a mutant that stops at its own Topic
cleanupParent_none(topic) == NULL

\* this.parentTopic in cleanupContext
cleanupParent(topic) == topicHeap[topic].parentTopic

\* Test.run has produced its result (passed or not) and calls
\* cleanupContext(context) on the Test's Topic
cleanupContext_call(topic, context, passed) ==
  /\ pc = "define"
  /\ entered = <<>>
  /\ cuStart' = <<[topic |-> topic, context |-> context, passed |-> passed]>>
  /\ cuTopic' = topic
  /\ cuI' = Len(topicHeap[topic].cleanups) - 1
  /\ cuContext' = context
  /\ cuOutcome' = "running"
  /\ pc' = "cleanup"
  /\ UNCHANGED <<otherVars, treeVars, entered, suiteVars, runVars, cuCalls>>

\* cleanupContext, one iteration of its loop: the cleanup function returns
\* or throws, and what it throws leaves cleanupContext
cleanupContext_invoke(threw) ==
  /\ pc = "cleanup"
  /\ cuOutcome = "running"
  /\ cuI > -1
  /\ cuCalls' = Append(cuCalls,
       [fn |-> cleanupAt(cuTopic, cuI), context |-> cuContext])
  /\ IF threw
     THEN cuOutcome' = "threw" /\ UNCHANGED cuI
     ELSE cuI' = cuI - 1 /\ UNCHANGED cuOutcome
  /\ UNCHANGED <<otherVars, treeVars, entered, suiteVars, pc, runVars, cuStart, cuTopic,
                 cuContext>>

\* cleanupContext, after its loop: the same on the parent Topic, if any
cleanupContext_ascend ==
  /\ pc = "cleanup"
  /\ cuOutcome = "running"
  /\ ~(cuI > -1)
  /\ IF cleanupParent(cuTopic) # NULL
     THEN /\ cuTopic' = cleanupParent(cuTopic)
          /\ cuI' = Len(topicHeap[cleanupParent(cuTopic)].cleanups) - 1
          /\ UNCHANGED cuOutcome
     ELSE /\ cuOutcome' = "returned"
          /\ UNCHANGED <<cuTopic, cuI>>
  /\ UNCHANGED <<otherVars, treeVars, entered, suiteVars, pc, runVars, cuStart,
                 cuContext, cuCalls>>

\* cleanupContext, one iteration of its loop with an asynchronous cleanup:
\* the call returns a promise that is still pending, the value of the call
\* is dropped and the loop goes on
cleanupContext_invokeAsync ==
  /\ pc = "cleanup"
  /\ cuOutcome = "running"
  /\ cuI > -1
  /\ cuCalls' = Append(cuCalls,
       [fn |-> cleanupAt(cuTopic, cuI), context |-> cuContext])
  /\ cuLive' = cuLive \cup {cleanupAt(cuTopic, cuI)}
  /\ cuI' = cuI - 1
  /\ UNCHANGED <<fixtureVars, search, timerVars, cloneVars, treeVars, entered,
                 suiteVars, pc, runVars, cuStart, cuTopic, cuContext,
                 cuOutcome>>

\* The promise of an asynchronous cleanup settles: the cleanup is complete
cleanup_settle(fn) ==
  /\ fn \in cuLive
  /\ cuLive' = cuLive \ {fn}
  /\ UNCHANGED <<fixtureVars, search, timerVars, cloneVars, treeVars, entered,
                 suiteVars, pc, runVars, cleanupVars>>

-----------------------------------------------------------------------------
(* Topic: fixtures and context.  A context object is the sequence of the   *)
(* keys written into it, {} being the empty one.  A fixture function is    *)
(* [fn, kind]: it returns nothing ("none"), a copy of the context it       *)
(* received with its own key added ("extend"), or a new object holding     *)
(* only its own key ("replace").  A return value is <<>> when falsy and    *)
(* <<object>> otherwise.                                                   *)

FixtureKinds == {"none", "extend", "replace"}

\* The fixture functions registered so far, on any Topic
RECURSIVE fixtureCount(_)
fixtureCount(n) ==
  IF n = 0 THEN 0 ELSE Len(topicHeap[n].fixtures) + fixtureCount(n - 1)

\* Spec.before: a fixture function is registered on the Topic entered, a
\* push onto its fixtures
addFixture(kind) ==
  /\ pc = "define"
  /\ entered # <<>>
  /\ fixtureCount(Len(topicHeap)) < MaxFixtures
  /\ topicHeap' = [topicHeap EXCEPT ![currentTopic].fixtures =
       Append(@, [fn |-> fixtureCount(Len(topicHeap)) + 1, kind |-> kind])]
  /\ UNCHANGED <<otherVars, testHeap, specHeap, entered, suiteVars, pc, runVars,
                 cleanupVars>>

\* fixture(context)
callFixture(fixture, context) ==
  CASE fixture.kind = "none" -> <<>>
    [] fixture.kind = "extend" -> <<Append(context, fixture.fn)>>
    [] fixture.kind = "replace" -> <<<<fixture.fn>>>>

\* `fixture(context) || context`, with the value of the fixture dropped
orContext_dropped(returned, context) == context

\* `fixture(context) || context`
orContext(returned, context) ==
  IF returned # <<>> THEN returned[1] ELSE context

\* this.fixtures.reduce(...): the value reduced to, and the calls made
RECURSIVE reduceFixtures(_, _)
reduceFixtures(fixtures, acc) ==
  IF fixtures = <<>> THEN acc
  ELSE reduceFixtures(Tail(fixtures),
         [context |-> orContext(callFixture(Head(fixtures), acc.context),
                                acc.context),
          calls |-> Append(acc.calls,
                      [fn |-> Head(fixtures).fn, context |-> acc.context])])

\* get context(): the context of the parent Topic, or {}, reduced over the
\* fixtures of this Topic
RECURSIVE Topic_context(_)
Topic_context(topic) ==
  LET parentTopic == topicHeap[topic].parentTopic
      start == IF parentTopic # NULL THEN Topic_context(parentTopic)
               ELSE [context |-> <<>>, calls |-> <<>>]
  IN reduceFixtures(topicHeap[topic].fixtures, start)

\* One read of topic.context, once the tree is built
context_read(topic) ==
  /\ pc = "define"
  /\ entered = <<>>
  /\ Len(ctxReads) < MaxReads
  /\ ctxReads' = Append(ctxReads,
       [topic |-> topic, context |-> Topic_context(topic).context])
  /\ fxCalls' = fxCalls \o Topic_context(topic).calls
  /\ UNCHANGED <<cuLive, search, timerVars, cloneVars, treeVars, entered,
                 suiteVars, pc, runVars, cleanupVars>>

-----------------------------------------------------------------------------
(* Suite: addressing *)

\* Suite.getTestByAddress, as a mutant that lets a negative index count from
\* the end of the array
getTestByAddress_wrap(a) ==
  LET spec == IF a.spec < 0 THEN At(specs, Len(specs) + a.spec)
              ELSE At(specs, a.spec) IN
    IF spec # NULL THEN Spec_getTestByAddress(spec, a) ELSE NULL

\* Suite.getTestByAddress
getTestByAddress(a) ==
  LET spec == At(specs, a.spec) IN
    IF spec # NULL THEN Spec_getTestByAddress(spec, a) ELSE NULL

\* The for loop of getAddressForTest, were a Topic that is the root of no
\* Spec given the first Spec
rootSpecIndex_orFirst(topic, i, specIndex) ==
  LET found == {k \in 1 .. Len(specs) : specHeap[specs[k]].rootTopic = topic}
  IN IF found = {} THEN 0
     ELSE (CHOOSE k \in found : \A j \in found : j <= k) - 1

\* The for loop of getAddressForTest: the last i with specs[i].rootTopic
\* === topic, else the index found so far
RECURSIVE rootSpecIndex(_, _, _)
rootSpecIndex(topic, i, specIndex) ==
  IF i >= Len(specs) THEN specIndex
  ELSE rootSpecIndex(topic, i + 1,
         IF specHeap[At(specs, i)].rootTopic = topic THEN i ELSE specIndex)

\* The while loop of getAddressForTest
RECURSIVE addressLoop(_, _, _)
addressLoop(topic, topicAddr, specIndex) ==
  IF topic = NULL THEN [spec |-> specIndex, topic |-> topicAddr]
  ELSE LET parentTopic == topicHeap[topic].parentTopic IN
    IF parentTopic # NULL
    THEN addressLoop(parentTopic,
           unshift(topicAddr, indexOf(topicHeap[parentTopic].topics, topic)),
           specIndex)
    ELSE addressLoop(parentTopic, topicAddr,
           rootSpecIndex(topic, 0, specIndex))

\* Suite.getAddressForTest
getAddressForTest(test) ==
  LET topic == testHeap[test].topic
      testIndex == IF topic # NULL THEN indexOf(topicHeap[topic].tests, test)
                   ELSE -1
      found == addressLoop(topic, <<>>, -1)
  IN [spec |-> found.spec, topic |-> found.topic, test |-> testIndex]

-----------------------------------------------------------------------------
(* Suite: construction *)

\* Sequences of length at most n over S
SeqUpTo(S, n) == UNION {[1 .. k -> S] : k \in 0 .. n}

\* The addresses the query parameter testrunner_suite_address carries in
\* this model
ParamAddresses ==
  { [spec |-> 0, topic |-> <<>>, test |-> 0],
    [spec |-> 0, topic |-> <<0>>, test |-> 1],
    [spec |-> 1, topic |-> <<>>, test |-> 1],
    [spec |-> 2, topic |-> <<>>, test |-> 0] }

\* new Suite(specs), with window.location.search holding the given address
\* parameter (<<>>: absent) and, when muted, testrunner_muted
Suite(specList, addressParam, muted) ==
  /\ pc = "define"
  /\ entered = <<>>
  /\ specs' = specList
  /\ address' = addressParam
  /\ isMuted' = muted
  /\ pc' = "idle"
  /\ UNCHANGED <<otherVars, treeVars, entered, runVars, cleanupVars>>

\* The constructor on any query string.  A JSON value is [type, n,
\* address]: null, false, a number n, an object without the fields of an
\* address ("object"), or a SuiteAddress.  A text is [chars, value]: the
\* empty string, the serialization of a JSON value ("json", <<value>>), or
\* a string that is no JSON text, like "undefined".  The part of the
\* query string for testrunner_suite_address is [form, text]: no such part
\* ("absent"), the key without `=` ("noValue"), a value that is no valid
\* percent-encoding ("badEscape"), or a value that decodes to the text.

JSONValue(type, n, a) == [type |-> type, n |-> n, address |-> a]

JSONValues ==
  { JSONValue("null", 0, <<>>), JSONValue("false", 0, <<>>),
    JSONValue("number", 0, <<>>), JSONValue("number", 5, <<>>),
    JSONValue("object", 0, <<>>) }
  \cup { JSONValue("address", 0, <<a>>) : a \in ParamAddresses }

Text(chars, value) == [chars |-> chars, value |-> value]

\* JSON.stringify(value)
JSON_stringify(value) == Text("json", <<value>>)

\* JSON.parse(text): <<value>>, or <<>> when it throws a SyntaxError
JSON_parse(text) == IF text.chars = "json" THEN text.value ELSE <<>>

\* The truthiness of a text: every string but the empty one
truthyText(text) == text.chars # "empty"

\* The truthiness of a JSON value: null, false and 0 are falsy
truthy(value) ==
  /\ value.type \notin {"null", "false"}
  /\ ~(value.type = "number" /\ value.n = 0)

\* this.address as run reads it: <<>> when falsy, the SuiteAddress when the
\* value is one, the value as it is otherwise
asAddress(value) ==
  IF ~truthy(value) THEN <<>>
  ELSE IF value.type = "address" THEN value.address
  ELSE <<value>>

AddressParts ==
  { [form |-> "absent", text |-> Text("empty", <<>>)],
    [form |-> "noValue", text |-> Text("empty", <<>>)],
    [form |-> "badEscape", text |-> Text("empty", <<>>)],
    [form |-> "value", text |-> Text("empty", <<>>)],
    [form |-> "value", text |-> Text("other", <<>>)] }
  \cup { [form |-> "value", text |-> JSON_stringify(v)] : v \in JSONValues }

\* map[parts[0]] = decodeURIComponent(parts[1]) for the part of the
\* address: <<text>>, or <<>> when decodeURIComponent throws a URIError;
\* the missing value of a key without `=` decodes to "undefined"
decodeURIComponent(part) ==
  CASE part.form = "noValue" -> <<Text("other", <<>>)>>
    [] part.form = "badEscape" -> <<>>
    [] part.form = "value" -> <<part.text>>

\* new Suite(specs) with the given part for testrunner_suite_address in
\* window.location.search: the constructor throws, or the Suite is made
\* with the address parsed, which run reads for its truthiness
Suite_constructor(specList, part, muted) ==
  /\ pc = "define"
  /\ entered = <<>>
  /\ search' = <<part>>
  /\ IF part.form = "absent"
     THEN /\ specs' = specList
          /\ address' = <<>>
          /\ isMuted' = muted
          /\ pc' = "idle"
     ELSE IF decodeURIComponent(part) = <<>>
     THEN /\ pc' = "threw"
          /\ UNCHANGED suiteVars
     ELSE IF ~truthyText(decodeURIComponent(part)[1])
     THEN /\ specs' = specList
          /\ address' = <<>>
          /\ isMuted' = muted
          /\ pc' = "idle"
     ELSE IF JSON_parse(decodeURIComponent(part)[1]) = <<>>
     THEN /\ pc' = "threw"
          /\ UNCHANGED suiteVars
     ELSE /\ specs' = specList
          /\ address' = asAddress(JSON_parse(decodeURIComponent(part)[1])[1])
          /\ isMuted' = muted
          /\ pc' = "idle"
  /\ UNCHANGED <<cuLive, fixtureVars, timerVars, cloneVars, treeVars, entered,
                 runVars, cleanupVars>>

-----------------------------------------------------------------------------
(* Suite: run *)

\* run(): the branch on this.address
runMode_alwaysFull == "full"

\* run(): the branch on this.address
runMode == IF address # <<>> THEN "addressed" ELSE "full"

\* run(): nothing follows `if (test != null)`, as a mutant that falls back
\* to the full run
runAfterMiss_fallback == "specs"

\* run(): nothing follows `if (test != null)`
runAfterMiss == "done"

\* The loops of topicRun in program order, as a mutant that recurses first
topicRunLoops_swapped == <<"topics", "tests">>

\* The loops of topicRun in program order
topicRunLoops == <<"tests", "topics">>

\* `await`: the caller continues once the awaited call has completed, as
\* a mutant that does not wait
awaitDone_noAwait(calls) == TRUE

\* `await`: the caller continues once the awaited call has completed
awaitDone(calls) == calls = <<>>

\* testRun(test) up to its first suspension: Test.run has begun
callTestRun(test) ==
  /\ executed' = Append(executed, test)
  /\ pending' = Append(pending, test)

\* run(), entry
run_begin ==
  /\ pc = "idle"
  /\ IF runMode = "addressed"
     THEN LET test == getTestByAddress(address[1]) IN
       IF test # NULL
       THEN /\ callTestRun(test)
            /\ pc' = "addressed"
            /\ UNCHANGED runI
       ELSE /\ pc' = runAfterMiss
            /\ runI' = 0
            /\ UNCHANGED <<pending, executed>>
     ELSE /\ pc' = "specs"
          /\ runI' = 0
          /\ UNCHANGED <<pending, executed>>
  /\ UNCHANGED <<otherVars, treeVars, entered, suiteVars, frames, topicAddress, posted,
                 consoleLog, cleanupVars>>

\* run(), addressed branch: the awaited testRun has completed
run_addressedEnd ==
  /\ pc = "addressed"
  /\ awaitDone(pending)
  /\ pc' = "done"
  /\ UNCHANGED <<otherVars, treeVars, entered, suiteVars, runVars, cleanupVars>>

\* run(), one iteration of the loop over this.specs, up to the call of
\* topicRun; reading a property of a null rootTopic throws
run_spec ==
  /\ pc = "specs"
  /\ IF runI < Len(specs)
     THEN LET rootTopic == specHeap[At(specs, runI)].rootTopic IN
       IF rootTopic = NULL
       THEN /\ pc' = "failed"
            /\ UNCHANGED <<frames, topicAddress, consoleLog>>
       ELSE /\ consoleLog' = IF isMuted THEN consoleLog ELSE consoleLog + 1
            /\ frames' = <<[topic |-> rootTopic, specIndex |-> runI,
                            loop |-> 1, i |-> 0]>>
            /\ topicAddress' = <<>>
            /\ pc' = "topicRun"
     ELSE /\ pc' = "done"
          /\ UNCHANGED <<frames, topicAddress, consoleLog>>
  /\ UNCHANGED <<otherVars, treeVars, entered, suiteVars, runI, pending, executed, posted,
                 cleanupVars>>

top == frames[Len(frames)]

setTop(frame) == [frames EXCEPT ![Len(frames)] = frame]

\* topicRun, one iteration of the loop over topic.tests
topicRun_test ==
  /\ pc = "topicRun"
  /\ awaitDone(pending)
  /\ topicRunLoops[top.loop] = "tests"
  /\ top.i < Len(topicHeap[top.topic].tests)
  /\ LET a == [spec |-> top.specIndex, topic |-> topicAddress,
               test |-> top.i]
         test == getTestByAddress(a)
     IN IF test # NULL THEN callTestRun(test)
        ELSE UNCHANGED <<pending, executed>>
  /\ frames' = setTop([top EXCEPT !.i = @ + 1])
  /\ UNCHANGED <<otherVars, treeVars, entered, suiteVars, pc, runI, topicAddress, posted,
                 consoleLog, cleanupVars>>

\* topicRun, one iteration of the loop over topic.topics, up to the
\* recursive call
topicRun_subtopic ==
  /\ pc = "topicRun"
  /\ awaitDone(pending)
  /\ topicRunLoops[top.loop] = "topics"
  /\ top.i < Len(topicHeap[top.topic].topics)
  /\ topicAddress' = Append(topicAddress, top.i)
  /\ frames' = Append(frames,
       [topic |-> At(topicHeap[top.topic].topics, top.i),
        specIndex |-> top.specIndex, loop |-> 1, i |-> 0])
  /\ UNCHANGED <<otherVars, treeVars, entered, suiteVars, pc, runI, pending, executed, posted,
                 consoleLog, cleanupVars>>

\* The number of entries of the loop a frame is in
loopLength(frame) ==
  IF topicRunLoops[frame.loop] = "tests"
  THEN Len(topicHeap[frame.topic].tests)
  ELSE Len(topicHeap[frame.topic].topics)

\* topicAddress.pop() after the recursive call, were it left out
topicAddress_popped_missing(array) == array

\* topicAddress.pop() after the recursive call
topicAddress_popped(array) == pop(array)

\* topicRun, a loop ends: the next loop begins, or topicRun returns to its
\* caller, which pops topicAddress (a recursive call) or moves to the next
\* Spec (run)
topicRun_loopEnd ==
  /\ pc = "topicRun"
  /\ awaitDone(pending)
  /\ top.i >= loopLength(top)
  /\ IF top.loop < Len(topicRunLoops)
     THEN /\ frames' = setTop([top EXCEPT !.loop = @ + 1, !.i = 0])
          /\ UNCHANGED <<pc, runI, topicAddress>>
     ELSE IF Len(frames) > 1
     THEN /\ frames' = [pop(frames) EXCEPT ![Len(frames) - 1].i = @ + 1]
          /\ topicAddress' = topicAddress_popped(topicAddress)
          /\ UNCHANGED <<pc, runI>>
     ELSE /\ frames' = <<>>
          /\ runI' = runI + 1
          /\ pc' = "specs"
          /\ UNCHANGED topicAddress
  /\ UNCHANGED <<otherVars, treeVars, entered, suiteVars, pending, executed, posted, consoleLog,
                 cleanupVars>>

\* The array without its k-th entry
removeAt(array, k) ==
  SubSeq(array, 1, k - 1) \o SubSeq(array, k + 1, Len(array))

\* The number of failed results posted
failures == Cardinality({j \in 1 .. Len(posted) : ~posted[j].passed})

\* window.top.postMessage(cloneableResult(result), origin), were it made
\* only when the Suite is not muted
postMessage_unlessMuted(result) ==
  IF isMuted THEN posted ELSE Append(posted, result)

\* window.top.postMessage(cloneableResult(result), origin)
postMessage(result) == Append(posted, result)

\* Test.run settles with the given outcome and testRun resumes: it logs
\* unless muted and posts the result
testRun_resume(k, passed) ==
  /\ k \in 1 .. Len(pending)
  /\ passed \/ failures < MaxFailures
  /\ consoleLog' = IF isMuted THEN consoleLog ELSE consoleLog + 1
  /\ posted' = postMessage([test |-> pending[k], passed |-> passed])
  /\ pending' = removeAt(pending, k)
  /\ UNCHANGED <<otherVars, treeVars, entered, suiteVars, pc, runI, frames, topicAddress,
                 executed, cleanupVars>>

-----------------------------------------------------------------------------
(* util: timeLimit.  A limit is [due, state, cancelledAt, rejectedAt]: its *)
(* promise is pending while the state is "armed" or "cancelled" and has    *)
(* failed once it is "rejected".                                           *)

\* timeLimit(ms): a timer of ms is set, and { promise, cancel } returned
timeLimit(ms) ==
  /\ Len(limits) < MaxLimits
  /\ now + ms <= MaxTime
  /\ limits' = Append(limits,
       [due |-> now + ms, state |-> "armed", cancelledAt |-> -1,
        rejectedAt |-> -1])
  /\ UNCHANGED <<cuLive, fixtureVars, search, now, cloneVars, treeVars,
                 entered, suiteVars, pc, runVars, cleanupVars>>

\* What cancel does to the timer, were it to leave the timer set
clearTimer_kept(limit) == limit

\* What cancel does to the timer: a timer that has not gone off is cleared
clearTimer(limit) ==
  IF limit.state = "armed" THEN [limit EXCEPT !.state = "cancelled"]
  ELSE limit

\* limit.cancel(), called once
timeLimit_cancel(k) ==
  /\ k \in 1 .. Len(limits)
  /\ limits[k].cancelledAt = -1
  /\ limits' = [limits EXCEPT
       ![k] = clearTimer([limits[k] EXCEPT !.cancelledAt = now])]
  /\ UNCHANGED <<cuLive, fixtureVars, search, now, cloneVars, treeVars,
                 entered, suiteVars, pc, runVars, cleanupVars>>

\* The timer of a limit goes off, not before its time: the promise fails
timeLimit_fire(k) ==
  /\ k \in 1 .. Len(limits)
  /\ limits[k].state = "armed"
  /\ now >= limits[k].due
  /\ limits' = [limits EXCEPT ![k].state = "rejected", ![k].rejectedAt = now]
  /\ UNCHANGED <<cuLive, fixtureVars, search, now, cloneVars, treeVars,
                 entered, suiteVars, pc, runVars, cleanupVars>>

\* A millisecond passes
timePasses ==
  /\ now < MaxTime
  /\ now' = now + 1
  /\ UNCHANGED <<cuLive, fixtureVars, search, limits, cloneVars, treeVars,
                 entered, suiteVars, pc, runVars, cleanupVars>>

-----------------------------------------------------------------------------
(* util: cloneableResult.  A result is an object of the result heap,       *)
(* [passed, error]; its error is [kind, message, stack]: no error field    *)
(* ("none"), the value false ("false"), a failure made by new Error        *)
(* ("Error"), or a plain object ("object").  An absent message or stack is *)
(* <<>>; the stack text of a failure begins with its message.              *)

\* The values of the error field of a result that Test.run or a test
\* author makes
ErrorValues ==
  { [kind |-> "none", message |-> <<>>, stack |-> <<>>],
    [kind |-> "false", message |-> <<>>, stack |-> <<>>] }
  \cup { [kind |-> "Error", message |-> <<m>>, stack |-> <<"Error", m>>] :
           m \in 1 .. MaxMessages }

\* A result object is made: { passed, error }
newResult(passed, error) ==
  /\ cloneCalls = <<>>
  /\ Len(resultHeap) < MaxResults
  /\ resultHeap' = Append(resultHeap, [passed |-> passed, error |-> error])
  /\ UNCHANGED <<cuLive, fixtureVars, search, timerVars, cloneCalls, treeVars,
                 entered, suiteVars, pc, runVars, cleanupVars>>

\* The error of the projection, were it the failure itself
projectError_whole(error) == error

\* The error of the projection: { stack: error.stack }
projectError(error) ==
  [kind |-> "object", message |-> <<>>, stack |-> error.stack]

\* cloneableResult(result): a result with a failure is copied with the
\* failure projected, any other result is returned as it is
cloneableResult_call(result) ==
  /\ result \in 1 .. Len(resultHeap)
  /\ resultHeap[result].error.kind # "object"
  /\ Len(cloneCalls) < MaxClones
  /\ IF resultHeap[result].error.kind = "Error"
     THEN /\ resultHeap' = Append(resultHeap,
               [passed |-> resultHeap[result].passed,
                error |-> projectError(resultHeap[result].error)])
          /\ cloneCalls' = Append(cloneCalls,
               [arg |-> result, ret |-> Len(resultHeap) + 1])
     ELSE /\ cloneCalls' = Append(cloneCalls, [arg |-> result, ret |-> result])
          /\ UNCHANGED resultHeap
  /\ UNCHANGED <<cuLive, fixtureVars, search, timerVars, treeVars, entered,
                 suiteVars, pc, runVars, cleanupVars>>

-----------------------------------------------------------------------------
Init ==
  /\ topicHeap = <<>>
  /\ testHeap = <<>>
  /\ specHeap = <<>>
  /\ entered = <<>>
  /\ specs = <<>>
  /\ address = <<>>
  /\ isMuted = FALSE
  /\ pc = "define"
  /\ runI = 0
  /\ frames = <<>>
  /\ topicAddress = <<>>
  /\ pending = <<>>
  /\ executed = <<>>
  /\ posted = <<>>
  /\ consoleLog = 0
  /\ cuStart = <<>>
  /\ cuTopic = NULL
  /\ cuI = 0
  /\ cuContext = 0
  /\ cuCalls = <<>>
  /\ cuOutcome = "none"
  /\ cuLive = {}
  /\ fxCalls = <<>>
  /\ ctxReads = <<>>
  /\ search = <<>>
  /\ now = 0
  /\ limits = <<>>
  /\ resultHeap = <<>>
  /\ cloneCalls = <<>>

Next ==
  \/ newSpec
  \/ \E spec \in 1 .. Len(specHeap) : describeRoot(spec, MaxTopics)
  \/ describe(MaxTopics)
  \/ describeEnd
  \/ it
  \/ /\ pc = "define"
     /\ \E specList \in SeqUpTo(1 .. Len(specHeap), MaxSuiteSpecs),
           addressParam \in {<<>>} \cup {<<a>> : a \in ParamAddresses},
           muted \in BOOLEAN :
          Suite(specList, addressParam, muted)
  \/ run_begin
  \/ run_addressedEnd
  \/ run_spec
  \/ topicRun_test
  \/ topicRun_subtopic
  \/ topicRun_loopEnd
  \/ \E k \in 1 .. Len(pending), passed \in BOOLEAN : testRun_resume(k, passed)

Spec == Init /\ [][Next]_vars

\* The definition pass and the construction of a Suite, which is never
\* run: the states the claims about addressing quantify over
NextLookup ==
  \/ newSpec
  \/ \E spec \in 1 .. Len(specHeap) : describeRoot(spec, MaxTopics)
  \/ describe(MaxTopics)
  \/ describeEnd
  \/ it
  \/ /\ pc = "define"
     /\ \E specList \in SeqUpTo(1 .. Len(specHeap), MaxSuiteSpecs) :
          Suite(specList, <<>>, FALSE)

SpecLookup == Init /\ [][NextLookup]_vars

\* The same on deeper trees
NextTree ==
  \/ newSpec
  \/ \E spec \in 1 .. Len(specHeap) : describeRoot(spec, MaxTreeTopics)
  \/ describe(MaxTreeTopics)
  \/ describeEnd
  \/ it
  \/ /\ pc = "define"
     /\ \E specList \in SeqUpTo(1 .. Len(specHeap), MaxSuiteSpecs) :
          Suite(specList, <<>>, FALSE)

SpecTree == Init /\ [][NextTree]_vars

\* The Spec that spec-spec.ts defines: describe('a spec') with a test, a
\* nested topic of two tests, and a trailing test; a Suite of that Spec,
\* with or without an address parameter, muted or not
InitScenario ==
  /\ topicHeap =
       << [parentTopic |-> NULL, tests |-> <<1, 4>>, topics |-> <<2>>,
           fixtures |-> <<>>, cleanups |-> <<>>],
          [parentTopic |-> 1, tests |-> <<2, 3>>, topics |-> <<>>,
           fixtures |-> <<>>, cleanups |-> <<>>] >>
  /\ testHeap = <<Test(1), Test(2), Test(2), Test(1)>>
  /\ specHeap = <<[rootTopic |-> 1]>>
  /\ entered = <<>>
  /\ specs = <<1>>
  /\ address \in {<<>>} \cup {<<a>> : a \in ParamAddresses}
  /\ isMuted \in BOOLEAN
  /\ pc = "idle"
  /\ runI = 0
  /\ frames = <<>>
  /\ topicAddress = <<>>
  /\ pending = <<>>
  /\ executed = <<>>
  /\ posted = <<>>
  /\ consoleLog = 0
  /\ cuStart = <<>>
  /\ cuTopic = NULL
  /\ cuI = 0
  /\ cuContext = 0
  /\ cuCalls = <<>>
  /\ cuOutcome = "none"
  /\ cuLive = {}
  /\ fxCalls = <<>>
  /\ ctxReads = <<>>
  /\ search = <<>>
  /\ now = 0
  /\ limits = <<>>
  /\ resultHeap = <<>>
  /\ cloneCalls = <<>>

\* Suite.run
NextRun ==
  \/ run_begin
  \/ run_addressedEnd
  \/ run_spec
  \/ topicRun_test
  \/ topicRun_subtopic
  \/ topicRun_loopEnd
  \/ \E k \in 1 .. Len(pending), passed \in BOOLEAN : testRun_resume(k, passed)

SpecScenario == InitScenario /\ [][NextRun]_vars

\* Topics with cleanups, and one call of cleanupContext on one of them
NextCleanup ==
  \/ newSpec
  \/ \E spec \in 1 .. Len(specHeap) : describeRoot(spec, MaxTopics)
  \/ describe(MaxTopics)
  \/ describeEnd
  \/ addCleanup
  \/ /\ pc = "define"
     /\ \E topic \in 1 .. Len(topicHeap), context \in 1 .. MaxContexts,
           passed \in BOOLEAN :
          cleanupContext_call(topic, context, passed)
  \/ \E threw \in BOOLEAN : cleanupContext_invoke(threw)
  \/ cleanupContext_ascend

SpecCleanup == Init /\ [][NextCleanup]_vars

\* The Topics of one Spec with fixtures, and reads of Topic.context
NextContext ==
  \/ specHeap = <<>> /\ newSpec
  \/ \E spec \in 1 .. Len(specHeap) : describeRoot(spec, MaxTopics)
  \/ describe(MaxTopics)
  \/ describeEnd
  \/ \E kind \in FixtureKinds : addFixture(kind)
  \/ /\ pc = "define"
     /\ \E topic \in 1 .. Len(topicHeap) : context_read(topic)

SpecContext == Init /\ [][NextContext]_vars

\* Time limits on the clock of the event loop: time goes on, and a timer
\* that is due and not cleared goes off
NextTimer ==
  \/ \E ms \in 0 .. MaxDuration : timeLimit(ms)
  \/ \E k \in 1 .. Len(limits) : timeLimit_cancel(k)
  \/ \E k \in 1 .. Len(limits) : timeLimit_fire(k)
  \/ timePasses

SpecTimer ==
  /\ Init
  /\ [][NextTimer]_vars
  /\ WF_vars(timePasses)
  /\ \A k \in 1 .. MaxLimits : WF_vars(timeLimit_fire(k))

\* Results, and calls of cloneableResult on them
NextClone ==
  \/ \E passed \in BOOLEAN, error \in ErrorValues : newResult(passed, error)
  \/ \E result \in 1 .. Len(resultHeap) : cloneableResult_call(result)

SpecClone == Init /\ [][NextClone]_vars

\* The definition pass and the construction of a Suite on any query
\* string
NextQuery ==
  \/ newSpec
  \/ \E spec \in 1 .. Len(specHeap) : describeRoot(spec, MaxTopics)
  \/ describe(MaxTopics)
  \/ describeEnd
  \/ it
  \/ /\ pc = "define"
     /\ \E specList \in SeqUpTo(1 .. Len(specHeap), MaxSuiteSpecs),
           part \in AddressParts, muted \in BOOLEAN :
          Suite_constructor(specList, part, muted)

SpecQuery == Init /\ [][NextQuery]_vars

\* The same with cleanups that may be asynchronous
NextAsync ==
  \/ newSpec
  \/ \E spec \in 1 .. Len(specHeap) : describeRoot(spec, MaxTopics)
  \/ describe(MaxTopics)
  \/ describeEnd
  \/ addCleanup
  \/ /\ pc = "define"
     /\ \E topic \in 1 .. Len(topicHeap), context \in 1 .. MaxContexts,
           passed \in BOOLEAN :
          cleanupContext_call(topic, context, passed)
  \/ \E threw \in BOOLEAN : cleanupContext_invoke(threw)
  \/ cleanupContext_invokeAsync
  \/ cleanupContext_ascend
  \/ \E fn \in cuLive : cleanup_settle(fn)

SpecAsync == Init /\ [][NextAsync]_vars

\* A root Topic and any sequence of addSubtopic and addTest on the Topics
\* of its tree
NextTopic ==
  \/ newTopic
  \/ \E topic \in 1 .. Len(topicHeap) : Topic_addSubtopic(topic)
  \/ \E topic \in 1 .. Len(topicHeap) : Topic_addTest(topic)

SpecTopic == Init /\ [][NextTopic]_vars

\* The full run of a Suite of one Spec with a deeper tree
NextDeep ==
  \/ specHeap = <<>> /\ newSpec
  \/ \E spec \in 1 .. Len(specHeap) : describeRoot(spec, MaxTreeTopics)
  \/ describe(MaxTreeTopics)
  \/ describeEnd
  \/ it
  \/ /\ pc = "define"
     /\ \E specList \in SeqUpTo(1 .. Len(specHeap), MaxSuiteSpecs) :
          Suite(specList, <<>>, FALSE)
  \/ run_begin
  \/ run_spec
  \/ topicRun_test
  \/ topicRun_subtopic
  \/ topicRun_loopEnd
  \/ \E k \in 1 .. Len(pending) : testRun_resume(k, TRUE)

SpecDeep == Init /\ [][NextDeep]_vars

-----------------------------------------------------------------------------
(* Vocabulary of the claims *)

Tests == 1 .. Len(testHeap)

RECURSIVE rootOf(_)
rootOf(topic) ==
  IF topicHeap[topic].parentTopic = NULL THEN topic
  ELSE rootOf(topicHeap[topic].parentTopic)

\* The Test is present in one of the Suite's Specs
PresentInSuite(test) ==
  \E k \in 1 .. Len(specs) :
    specHeap[specs[k]].rootTopic = rootOf(testHeap[test].topic)

\* Every index of the address is within bounds at every level of the walk
RECURSIVE PathInBounds(_, _, _)
PathInBounds(topic, path, testIndex) ==
  IF path = <<>> THEN testIndex \in 0 .. (Len(topicHeap[topic].tests) - 1)
  ELSE /\ Head(path) \in 0 .. (Len(topicHeap[topic].topics) - 1)
       /\ PathInBounds(topicHeap[topic].topics[Head(path) + 1], Tail(path),
                       testIndex)

Resolvable(a) ==
  /\ a.spec \in 0 .. (Len(specs) - 1)
  /\ specHeap[specs[a.spec + 1]].rootTopic # NULL
  /\ PathInBounds(specHeap[specs[a.spec + 1]].rootTopic, a.topic, a.test)

MaxPathLen == 2

\* Addresses with indices below, within and beyond the ranges of the tree
AddressSpace ==
  [spec : -1 .. MaxSuiteSpecs,
   topic : SeqUpTo(-1 .. (MaxTopics - 1), MaxPathLen),
   test : -1 .. MaxTests]

IsPrefix(s, t) == Len(s) <= Len(t) /\ SubSeq(t, 1, Len(s)) = s

\* The walk of a Topic: its own Tests first, then its subtopics left to right
RECURSIVE Walk(_)
RECURSIVE WalkEach(_)
Walk(topic) == topicHeap[topic].tests \o WalkEach(topicHeap[topic].topics)
WalkEach(children) ==
  IF children = <<>> THEN <<>>
  ELSE Walk(Head(children)) \o WalkEach(Tail(children))

\* The walk of the Suite's Specs in list order
RECURSIVE WalkSpecs(_)
WalkSpecs(list) ==
  IF list = <<>> THEN <<>>
  ELSE (IF specHeap[Head(list)].rootTopic = NULL THEN <<>>
        ELSE Walk(specHeap[Head(list)].rootTopic)) \o WalkSpecs(Tail(list))

Running == pc \notin {"define", "idle"}
Ended == pc \in {"done", "failed"}
FullRun == Running /\ address = <<>>

-----------------------------------------------------------------------------
(* C1 *)

\* C1: for every Test present in one of the Suite's Specs, looking up the
\* address computed for the Test returns that very Test.
InverseLaw ==
  pc = "idle" =>
    \A t \in Tests :
      PresentInSuite(t) => getTestByAddress(getAddressForTest(t)) = t

\* A Test two levels below the root of the Suite's second Spec has an
\* address, and the address leads back to it.
InverseLawWitness ==
  /\ pc = "idle"
  /\ \E t \in Tests :
       /\ PresentInSuite(t)
       /\ getAddressForTest(t).spec = 1
       /\ Len(getAddressForTest(t).topic) = 2
       /\ getTestByAddress(getAddressForTest(t)) = t

-----------------------------------------------------------------------------
(* C2 *)

\* C2: a full run executes exactly the walk of every Spec of the Suite in
\* list order, each Topic's own Tests first and then its subtopics left to
\* right.
FullRunExecutesWalk ==
  (FullRun /\ Ended) => executed = WalkSpecs(specs)

-----------------------------------------------------------------------------
(* C3 *)

\* The tree of the scenario: an outer Topic with one Test, then a nested
\* Topic holding two Tests, then a trailing Test, defined in this order
ScenarioTree(spec) ==
  LET outer == specHeap[spec].rootTopic IN
    /\ outer # NULL
    /\ Len(topicHeap[outer].tests) = 2
    /\ Len(topicHeap[outer].topics) = 1
    /\ LET nested == topicHeap[outer].topics[1] IN
         /\ Len(topicHeap[nested].tests) = 2
         /\ topicHeap[nested].topics = <<>>
         /\ topicHeap[outer].tests[1] < topicHeap[nested].tests[1]
         /\ topicHeap[nested].tests[2] < topicHeap[outer].tests[2]

\* The four Tests in the order of their definition
ScenarioDefinitionOrder(spec) ==
  LET outer == specHeap[spec].rootTopic
      nested == topicHeap[outer].topics[1]
  IN <<topicHeap[outer].tests[1], topicHeap[nested].tests[1],
       topicHeap[nested].tests[2], topicHeap[outer].tests[2]>>

\* The four Tests, those of the outer Topic before those of the nested one
ScenarioTestsFirstOrder(spec) ==
  LET outer == specHeap[spec].rootTopic
      nested == topicHeap[outer].topics[1]
  IN <<topicHeap[outer].tests[1], topicHeap[outer].tests[2],
       topicHeap[nested].tests[1], topicHeap[nested].tests[2]>>

\* C3, as claimed: the full run of a Suite of the scenario's Spec executes
\* outer-test-1, nested-test-1, nested-test-2, outer-test-2 in this order.
ScenarioWalkInDefinitionOrder ==
  \A spec \in 1 .. Len(specHeap) :
    (FullRun /\ pc = "done" /\ specs = <<spec>> /\ ScenarioTree(spec)) =>
      executed = ScenarioDefinitionOrder(spec)

\* C3, amended: the full run of a Suite of the scenario's Spec executes
\* outer-test-1, outer-test-2, nested-test-1, nested-test-2 in this order,
\* and ends without failing.
ScenarioWalkOrder ==
  \A spec \in 1 .. Len(specHeap) :
    (FullRun /\ specs = <<spec>> /\ ScenarioTree(spec)) =>
      /\ pc # "failed"
      /\ IsPrefix(executed, ScenarioTestsFirstOrder(spec))
      /\ (pc = "done" => executed = ScenarioTestsFirstOrder(spec))

\* The full run of the scenario has ended with its four Tests executed.
ScenarioWalkOrderWitness ==
  \E spec \in 1 .. Len(specHeap) :
    /\ FullRun /\ pc = "done"
    /\ specs = <<spec>> /\ ScenarioTree(spec)
    /\ executed = ScenarioTestsFirstOrder(spec)

-----------------------------------------------------------------------------
(* C4 *)

\* C4: at most one Test is in progress at any time, and a Test begins only
\* when every Test begun before it has had its result posted.
OneTestAtATime ==
  /\ Len(pending) <= 1
  /\ Len(executed) = Len(posted) + Len(pending)
  /\ \A k \in 1 .. Len(posted) : posted[k].test = executed[k]

\* The second Test of a full run is in progress, and the first is reported.
OneTestAtATimeWitness ==
  /\ pc = "topicRun"
  /\ Len(pending) = 1
  /\ Len(executed) = 2
  /\ Len(posted) = 1

-----------------------------------------------------------------------------
(* C5 *)

\* C5: when the parsed address resolves to a Test, run executes that Test
\* and no other, posts exactly one message, and never enters the full run.
AddressedRunOnlyTarget ==
  (Running /\ address # <<>> /\ getTestByAddress(address[1]) # NULL) =>
    /\ pc \in {"addressed", "done"}
    /\ frames = <<>>
    /\ executed = <<getTestByAddress(address[1])>>
    /\ Len(posted) <= 1
    /\ \A k \in 1 .. Len(posted) : posted[k].test = executed[1]
    /\ (pc = "done" => Len(posted) = 1)

\* An addressed run of the second Test of a subtopic has ended, in a Suite
\* that holds other Tests, with one message posted.
AddressedRunOnlyTargetWitness ==
  /\ pc = "done"
  /\ address = <<[spec |-> 0, topic |-> <<0>>, test |-> 1]>>
  /\ getTestByAddress(address[1]) # NULL
  /\ Len(WalkSpecs(specs)) > 1
  /\ executed = <<getTestByAddress(address[1])>>
  /\ Len(posted) = 1

-----------------------------------------------------------------------------
(* C6 *)

\* C6: in a full run in which a Test has failed, run does not fail, and it
\* ends with every Test of the walk executed and a result posted for each.
FailedTestDoesNotAbortRun ==
  (FullRun /\ failures > 0) =>
    /\ pc # "failed"
    /\ (pc = "done" =>
          /\ executed = WalkSpecs(specs)
          /\ Len(posted) = Len(executed))

-----------------------------------------------------------------------------
(* C7 *)

\* C7: an address with an index out of range at any level resolves to no
\* Test; in particular an address whose spec index names no Spec does (no
\* such address is Resolvable).
OutOfRangeNotFound ==
  pc = "idle" =>
    \A a \in AddressSpace : Resolvable(a) \/ getTestByAddress(a) = NULL

\* A Suite of two Specs with Tests, where addresses miss at the spec
\* index, at the second level of the topic path and at the test index.
OutOfRangeNotFoundWitness ==
  /\ pc = "idle"
  /\ Len(specs) = 2
  /\ \E a \in AddressSpace : Resolvable(a) /\ Len(a.topic) = 1
  /\ \E a \in AddressSpace :
       /\ a.spec = 1 /\ Len(a.topic) = 2
       /\ Resolvable([a EXCEPT !.topic = <<a.topic[1]>>])
       /\ ~Resolvable(a)
       /\ getTestByAddress(a) = NULL
  /\ getTestByAddress([spec |-> -1, topic |-> <<>>, test |-> 0]) = NULL
  /\ getTestByAddress([spec |-> 2, topic |-> <<>>, test |-> 0]) = NULL

-----------------------------------------------------------------------------
(* C8 *)

\* C8: when the parsed address resolves to no Test, run ends at once: no
\* Test is executed, no message is posted, the full run is not entered.
AddressMissIsNoOp ==
  (Running /\ address # <<>> /\ getTestByAddress(address[1]) = NULL) =>
    /\ pc = "done"
    /\ frames = <<>>
    /\ executed = <<>>
    /\ posted = <<>>

\* A run with an unresolvable address has ended in a Suite that holds Tests.
AddressMissIsNoOpWitness ==
  /\ pc = "done"
  /\ address # <<>>
  /\ getTestByAddress(address[1]) = NULL
  /\ WalkSpecs(specs) # <<>>
  /\ executed = <<>>

\* A full run that ends without failing has executed the walk.
CompletedFullRunExecutesWalk ==
  (FullRun /\ pc = "done") =>
    executed = WalkSpecs(specs) /\ Len(posted) = Len(executed)

\* A full run fails only at a Spec without root Topic.
FullRunFailsOnlyOnEmptySpec ==
  pc = "failed" =>
    /\ address = <<>>
    /\ runI < Len(specs)
    /\ specHeap[specs[runI + 1]].rootTopic = NULL

-----------------------------------------------------------------------------
(* C9, C10 *)

Reverse(array) == [k \in 1 .. Len(array) |-> array[Len(array) + 1 - k]]

\* The cleanups of a Topic last registered first, then those of its
\* parent, up to the root
RECURSIVE CleanupChain(_)
CleanupChain(topic) ==
  Reverse(topicHeap[topic].cleanups) \o
    (IF topicHeap[topic].parentTopic = NULL THEN <<>>
     ELSE CleanupChain(topicHeap[topic].parentTopic))

Invoked == [k \in 1 .. Len(cuCalls) |-> cuCalls[k].fn]

TimesInvoked(fn) == Cardinality({k \in 1 .. Len(cuCalls) : cuCalls[k].fn = fn})

Range(array) == {array[k] : k \in 1 .. Len(array)}

\* C9: cleanupContext invokes the Topic's cleanups last registered first,
\* all of them before any of its parent's, and so on up to the root, each
\* with the context it was given.
CleanupOrder ==
  cuStart # <<>> =>
    /\ IsPrefix(Invoked, CleanupChain(cuStart[1].topic))
    /\ \A k \in 1 .. Len(cuCalls) : cuCalls[k].context = cuStart[1].context
    /\ (cuOutcome = "returned" => Invoked = CleanupChain(cuStart[1].topic))

\* cleanupContext has returned on a Topic with two cleanups whose parent
\* has one.
CleanupOrderWitness ==
  /\ cuStart # <<>>
  /\ cuOutcome = "returned"
  /\ Len(topicHeap[cuStart[1].topic].cleanups) = 2
  /\ topicHeap[cuStart[1].topic].parentTopic # NULL
  /\ Len(Invoked) = 3

-----------------------------------------------------------------------------
(* Topic.context *)

\* The fixtures of the Topics from the root down to the given one, each
\* Topic's in registration order
RECURSIVE FixtureChain(_)
FixtureChain(topic) ==
  (IF topicHeap[topic].parentTopic = NULL THEN <<>>
   ELSE FixtureChain(topicHeap[topic].parentTopic))
  \o topicHeap[topic].fixtures

\* What a fixture makes of the accumulated context: a truthy return value
\* replaces it, a falsy one leaves it
Applied(fixture, acc) ==
  IF fixture.kind = "none" THEN acc
  ELSE IF fixture.kind = "extend" THEN Append(acc, fixture.fn)
  ELSE <<fixture.fn>>

\* The context after the first n fixtures of the chain, from {}
RECURSIVE FoldTo(_, _)
FoldTo(chain, n) ==
  IF n = 0 THEN <<>> ELSE Applied(chain[n], FoldTo(chain, n - 1))

\* The calls a fold of the chain makes: each fixture once, in order, with
\* the context accumulated before it
FoldCalls(chain) ==
  [n \in 1 .. Len(chain) |->
     [fn |-> chain[n].fn, context |-> FoldTo(chain, n - 1)]]

\* The calls of the first n reads, each a fold anew
RECURSIVE ReadCalls(_)
ReadCalls(n) ==
  IF n = 0 THEN <<>>
  ELSE ReadCalls(n - 1) \o FoldCalls(FixtureChain(ctxReads[n].topic))

\* C11: every read of Topic.context yields the fold of the fixtures from
\* the root Topic down to this Topic, root first and in registration order
\* within a Topic, from an empty object; each fixture receives the context
\* accumulated so far, a truthy return value replaces it and a falsy one
\* leaves it; and every read invokes every fixture of the chain again
\* (nothing is cached).
ContextIsFold ==
  /\ \A k \in 1 .. Len(ctxReads) :
       LET chain == FixtureChain(ctxReads[k].topic)
       IN ctxReads[k].context = FoldTo(chain, Len(chain))
  /\ fxCalls = ReadCalls(Len(ctxReads))

\* Two reads of the context of a child Topic whose parent has a fixture
\* that the child's fixture overrides or extends, with a fixture that
\* returns nothing in the chain
ContextIsFoldWitness ==
  /\ Len(ctxReads) = 2
  /\ ctxReads[1].topic = ctxReads[2].topic
  /\ LET topic == ctxReads[1].topic
         parentTopic == topicHeap[topic].parentTopic
     IN /\ parentTopic # NULL
        /\ \E f \in Range(topicHeap[parentTopic].fixtures) : f.kind # "none"
        /\ \E f \in Range(topicHeap[topic].fixtures) : f.kind # "none"
        /\ \E f \in Range(FixtureChain(topic)) : f.kind = "none"
        /\ ctxReads[1].context # <<>>

-----------------------------------------------------------------------------
(* Reporting *)

\* The Tests a run is to execute, whatever the muted flag: the Test at the
\* address if there is one, the walk of the Specs without an address
ExpectedRun ==
  IF address # <<>>
  THEN (IF getTestByAddress(address[1]) # NULL
        THEN <<getTestByAddress(address[1])>> ELSE <<>>)
  ELSE WalkSpecs(specs)

\* C12: muted or not, one result is posted for every Test executed, in the
\* order of execution, and the Tests executed and their order are those of
\* the run's mode alone; a muted Suite writes nothing to the console.
MutedOnlySilencesConsole ==
  Running =>
    /\ [k \in 1 .. Len(posted) |-> posted[k].test] =
         SubSeq(executed, 1, Len(executed) - Len(pending))
    /\ (Ended => Len(posted) = Len(executed))
    /\ IsPrefix(executed, ExpectedRun)
    /\ (pc = "done" => executed = ExpectedRun)
    /\ (isMuted => consoleLog = 0)

\* A muted full run has ended with the results of at least two Tests
\* posted, one of them failed, and nothing on the console.
MutedOnlySilencesConsoleWitness ==
  /\ pc = "done"
  /\ isMuted
  /\ address = <<>>
  /\ Len(executed) >= 2
  /\ Len(posted) = Len(executed)
  /\ \E k \in 1 .. Len(posted) : ~posted[k].passed
  /\ consoleLog = 0

-----------------------------------------------------------------------------
(* Spec.totalTestCount *)

\* The Topics of the tree under the given root
TopicsOfTree(root) == {t \in 1 .. Len(topicHeap) : rootOf(t) = root}

\* The Tests registered in the tree under the given root
TestsOfTree(root) == {t \in Tests : rootOf(testHeap[t].topic) = root}

RECURSIVE SumOfTests(_)
SumOfTests(topics) ==
  IF topics = {} THEN 0
  ELSE LET t == CHOOSE x \in topics : TRUE
       IN Len(topicHeap[t].tests) + SumOfTests(topics \ {t})

RECURSIVE Depth(_)
Depth(topic) ==
  IF topicHeap[topic].parentTopic = NULL THEN 0
  ELSE 1 + Depth(topicHeap[topic].parentTopic)

\* C13: at every point of building a tree with describe and it, at any
\* depth, totalTestCount of the Spec is the number of Tests registered in
\* its tree, which is the sum of tests.length over the Topics of the tree.
TotalTestCountIsRegistrations ==
  \A spec \in 1 .. Len(specHeap) :
    specHeap[spec].rootTopic # NULL =>
      /\ totalTestCount(spec) =
           Cardinality(TestsOfTree(specHeap[spec].rootTopic))
      /\ totalTestCount(spec) =
           SumOfTests(TopicsOfTree(specHeap[spec].rootTopic))

\* A Spec counts two Tests, one of its root Topic and one of a Topic two
\* levels below.
TotalTestCountIsRegistrationsWitness ==
  \E spec \in 1 .. Len(specHeap) :
    /\ specHeap[spec].rootTopic # NULL
    /\ totalTestCount(spec) = 2
    /\ \E t \in TestsOfTree(specHeap[spec].rootTopic) :
         Depth(testHeap[t].topic) = 0
    /\ \E t \in TestsOfTree(specHeap[spec].rootTopic) :
         Depth(testHeap[t].topic) = 2

-----------------------------------------------------------------------------
(* timeLimit *)

\* A limit fails only once its duration has elapsed, and a limit cancelled
\* strictly before that has not failed
TimeLimitSafety ==
  \A k \in 1 .. Len(limits) :
    /\ (limits[k].state = "rejected" => limits[k].rejectedAt >= limits[k].due)
    /\ (limits[k].cancelledAt \in 0 .. (limits[k].due - 1) =>
          limits[k].state # "rejected")

\* C14: a time limit that is not cancelled eventually fails, and not before
\* its duration has elapsed; a time limit cancelled strictly before its
\* duration has elapsed never fails, however long one waits.
TimeLimitContract ==
  /\ []TimeLimitSafety
  /\ \A k \in 1 .. MaxLimits :
       (Len(limits) >= k) ~>
         (/\ Len(limits) >= k
          /\ limits[k].state = "rejected" \/ limits[k].cancelledAt # -1)

\* Past the duration of two limits, the one that was never cancelled has
\* failed and the one cancelled before its time has not.
TimeLimitContractWitness ==
  \E j, k \in 1 .. Len(limits) :
    /\ limits[j].cancelledAt = -1
    /\ limits[j].state = "rejected"
    /\ limits[k].cancelledAt \in 0 .. (limits[k].due - 1)
    /\ limits[k].state = "cancelled"
    /\ now > limits[k].due

-----------------------------------------------------------------------------
(* cloneableResult *)

\* C15: cloneableResult returns the very result it was given when the
\* result has no error field or a falsy one; given a result whose error is
\* a failure, it returns another object, with the same passed, whose
\* error has the stack text of the failure and no message.
CloneableProjection ==
  \A c \in 1 .. Len(cloneCalls) :
    LET given == resultHeap[cloneCalls[c].arg]
        returned == resultHeap[cloneCalls[c].ret]
    IN /\ (given.error.kind \in {"none", "false"} =>
             cloneCalls[c].ret = cloneCalls[c].arg)
       /\ (given.error.kind = "Error" =>
             /\ cloneCalls[c].ret # cloneCalls[c].arg
             /\ returned.passed = given.passed
             /\ returned.error.stack = given.error.stack
             /\ returned.error.stack # <<>>
             /\ returned.error.message = <<>>)

\* cloneableResult was called on { passed: true, error: false } and on
\* { passed: false, error: new Error(...) }.
CloneableProjectionWitness ==
  /\ \E c \in 1 .. Len(cloneCalls) :
       /\ resultHeap[cloneCalls[c].arg].passed
       /\ resultHeap[cloneCalls[c].arg].error.kind = "false"
  /\ \E c \in 1 .. Len(cloneCalls) :
       /\ ~resultHeap[cloneCalls[c].arg].passed
       /\ resultHeap[cloneCalls[c].arg].error.kind = "Error"
       /\ cloneCalls[c].ret # cloneCalls[c].arg

-----------------------------------------------------------------------------
(* The address parameter *)

\* The part carries a serialized SuiteAddress
SerializedAddress(part) ==
  /\ part.form = "value"
  /\ part.text.chars = "json"
  /\ part.text.value[1].type = "address"

\* A Suite was made: it can be run
Runnable == pc = "idle"

\* C16: whenever the address parameter is there and its value is not a
\* parseable serialized address, the constructor fails and no Suite that
\* can be run is made.
MalformedAddressFailsConstructor ==
  \A k \in 1 .. Len(search) :
    (search[k].form # "absent" /\ ~SerializedAddress(search[k])) => ~Runnable

\* What does hold: the constructor fails exactly on a key without value,
\* on a value that is no valid percent-encoding and on a non-empty text
\* that is no JSON text; an empty value gives a Suite without address, and
\* any JSON value is taken for the address unchecked, so that the Suite
\* has an address exactly when the value is truthy.
ConstructorFailsOnNonJSON ==
  \A k \in 1 .. Len(search) :
    LET part == search[k] IN
      /\ pc \in {"idle", "threw"}
      /\ pc = "threw" <=>
           \/ part.form \in {"noValue", "badEscape"}
           \/ part.form = "value" /\ part.text.chars = "other"
      /\ (pc = "idle" /\ part.form = "value" /\ part.text.chars = "json")
           => (address # <<>> <=> truthy(part.text.value[1]))
      /\ (pc = "idle" /\ SerializedAddress(part))
           => address = part.text.value[1].address
      /\ (pc = "idle" /\ part.text.chars # "json") => address = <<>>

-----------------------------------------------------------------------------
(* Asynchronous cleanups *)

\* C17: cleanups are awaited one at a time: a cleanup is invoked only when
\* every asynchronous cleanup invoked before it is complete, and
\* cleanupContext is left, so that the next Test can begin, only when all
\* of them are.
CleanupsAwaitedOneAtATime ==
  /\ [](cuOutcome \in {"returned", "threw"} => cuLive = {})
  /\ [][cuCalls' # cuCalls => cuLive = {}]_vars

-----------------------------------------------------------------------------
(* The tree of Topics and Tests *)

Topics == 1 .. Len(topicHeap)

\* The places of x in the array
Places(array, x) == {k \in 1 .. Len(array) : array[k] = x}

\* The parent chain of the Topic ends within n steps
RECURSIVE ChainEnds(_, _)
ChainEnds(topic, n) ==
  \/ topicHeap[topic].parentTopic = NULL
  \/ n > 0 /\ ChainEnds(topicHeap[topic].parentTopic, n - 1)

TreeShape ==
  /\ \A t \in Topics :
       IF t = 1
       THEN /\ topicHeap[t].parentTopic = NULL
            /\ \A p \in Topics : Places(topicHeap[p].topics, t) = {}
       ELSE /\ topicHeap[t].parentTopic \in Topics
            /\ \A p \in Topics :
                 Cardinality(Places(topicHeap[p].topics, t)) =
                   IF p = topicHeap[t].parentTopic THEN 1 ELSE 0
  /\ \A x \in Tests :
       /\ testHeap[x].topic \in Topics
       /\ \A p \in Topics :
            Cardinality(Places(topicHeap[p].tests, x)) =
              IF p = testHeap[x].topic THEN 1 ELSE 0
  /\ \A t \in Topics : ChainEnds(t, Len(topicHeap))

\* Every child sequence grows at its end only, and no parent changes
AppendOnly ==
  \A t \in Topics :
    /\ IsPrefix(topicHeap[t].topics, topicHeap'[t].topics)
    /\ IsPrefix(topicHeap[t].tests, topicHeap'[t].tests)
    /\ topicHeap'[t].parentTopic = topicHeap[t].parentTopic

\* C18: after any sequence of addSubtopic and addTest from a root Topic,
\* every Topic but the root has one parent and is once in the topics of
\* that parent and in no other, every Test is once in the tests of its own
\* Topic and in no other, no parent chain runs in a cycle, and every add
\* has appended at the end, leaving the index of every child as it was.
TreeInvariant ==
  /\ []TreeShape
  /\ [][AppendOnly]_vars

\* A tree of four Topics, three levels deep, with a Topic of two children
\* and two Tests of different Topics.
TreeInvariantWitness ==
  /\ Len(topicHeap) = 4
  /\ \E t \in Topics : Depth(t) = 2
  /\ \E t \in Topics : Len(topicHeap[t].topics) = 2
  /\ Len(testHeap) = 2
  /\ testHeap[1].topic # testHeap[2].topic

-----------------------------------------------------------------------------
(* topicAddress *)

\* The index path from the root to the Topic: the index of each Topic of
\* the chain among the topics of its parent
RECURSIVE IndexPath(_)
IndexPath(topic) ==
  IF topicHeap[topic].parentTopic = NULL THEN <<>>
  ELSE Append(IndexPath(topicHeap[topic].parentTopic),
              indexOf(topicHeap[topicHeap[topic].parentTopic].topics, topic))

\* While topicRun is under way: the shared array is the index path of the
\* Topic of the innermost call, within the Spec being run; up to each
\* level of the recursion it is the index path of that level's Topic; and
\* the Test looked up at step i is topic.tests[i]
TopicAddressIsPath ==
  pc = "topicRun" =>
    /\ topicAddress = IndexPath(top.topic)
    /\ \A k \in 1 .. Len(frames) :
         /\ SubSeq(topicAddress, 1, k - 1) = IndexPath(frames[k].topic)
         /\ rootOf(frames[k].topic) =
              specHeap[At(specs, frames[k].specIndex)].rootTopic
    /\ (topicRunLoops[top.loop] = "tests"
         /\ top.i < Len(topicHeap[top.topic].tests)) =>
           getTestByAddress([spec |-> top.specIndex, topic |-> topicAddress,
                             test |-> top.i])
             = At(topicHeap[top.topic].tests, top.i)

\* A call of topicRun that returns leaves the array as it was on entry:
\* the index path of its caller's Topic with the index pushed for the
\* call taken off, and empty for the call made by run
TopicAddressRestored ==
  Len(frames') < Len(frames) =>
    topicAddress' = IF frames' = <<>> THEN <<>>
                    ELSE IndexPath(frames'[Len(frames')].topic)

\* C19: in topicRun the one array shared by all levels of the recursion is
\* always the index path from the root of the Spec to the Topic being
\* processed, so that the Test looked up at step i is topic.tests[i], and
\* a call of topicRun that returns leaves the array as it was on entry.
TopicAddressTracksRecursion ==
  /\ []TopicAddressIsPath
  /\ [][TopicAddressRestored]_vars

\* topicRun is two levels below the root, in a second subtopic, about to
\* look up a Test there, after a Test was run elsewhere.
TopicAddressTracksRecursionWitness ==
  /\ pc = "topicRun"
  /\ Len(frames) = 3
  /\ \E k \in 1 .. Len(topicAddress) : topicAddress[k] = 1
  /\ topicRunLoops[top.loop] = "tests"
  /\ top.i < Len(topicHeap[top.topic].tests)
  /\ executed # <<>>

-----------------------------------------------------------------------------
(* Tests of no Spec of the Suite *)

\* C20: for a Test whose root Topic is the root of no Spec of the Suite,
\* getAddressForTest returns spec -1, with the topic path and the test
\* index of the Test in its own tree, and getTestByAddress finds no Test
\* at that address; and a spec index that getAddressForTest returns for
\* any Test, if not -1, is that of a Spec whose tree holds the Test.
ForeignTestHasNoSpec ==
  pc = "idle" =>
    \A t \in Tests :
      LET a == getAddressForTest(t) IN
        /\ ~PresentInSuite(t) =>
             /\ a.spec = -1
             /\ a.topic = IndexPath(testHeap[t].topic)
             /\ a.test = indexOf(topicHeap[testHeap[t].topic].tests, t)
             /\ getTestByAddress(a) = NULL
        /\ a.spec # -1 =>
             /\ a.spec \in 0 .. (Len(specs) - 1)
             /\ specHeap[specs[a.spec + 1]].rootTopic =
                  rootOf(testHeap[t].topic)

\* A Test of a subtopic of a Spec that is not in the Suite has spec -1,
\* while the Suite's one Spec has another Test at the same topic path and
\* test index.
ForeignTestHasNoSpecWitness ==
  /\ pc = "idle"
  /\ Len(specs) = 1
  /\ \E t \in Tests :
       /\ ~PresentInSuite(t)
       /\ getAddressForTest(t).spec = -1
       /\ getAddressForTest(t).topic # <<>>
       /\ getTestByAddress([getAddressForTest(t) EXCEPT !.spec = 0])
            \notin {NULL, t}

====
